---- MODULE Spec2Model ----
(***************************************************************************)
(* MAX2870 frequency calculators: MAX2870pf.py (fixed reference, "pf") and *)
(* MAX2870spf.py (reference sweep, "spf").                                 *)
(*                                                                         *)
(* Frequencies are counted in units of 2500 Hz, the greatest common        *)
(* divisor of all frequency limits of both scripts (6 GHz = 2400000,       *)
(* 10 MHz = 4000, 125 kHz = 50, ...).  Every comparison of the scripts is  *)
(* between two frequencies or between unit-free ratios, so the scaling     *)
(* changes no decision.  The one exception is the sweep's 1 Hz step, which *)
(* is one unit here.  Python floats are modelled as exact rationals        *)
(* [n |-> numerator, d |-> denominator].                                   *)
(*                                                                         *)
(* The loops over R and MOD run to MaximumR and MaximumMod, which are      *)
(* reduced from 1023 and 4095.                                             *)
(***************************************************************************)
EXTENDS Integers, FiniteSets, Sequences, TLC

VARIABLES
  variant,                       \* "pf" or "spf": which script runs
  pc,                            \* position in the script
  args,                          \* parsed command line
  ReferenceFrequency,            \* pf
  DesiredFrequency,
  MinimumInt, MaximumInt, MaximumPFDFrequency,
  NegativeFrequencyError, MatchAttempted,
  IntegerMode,                   \* spf
  FrequencyError,
  ReferenceFrequencyToMatch,     \* spf
  MatchingR, MatchingInt, MatchingMod, MatchingFrac,
  MatchingDivider, MatchingDivider_PowerOf2,
  FractionalMode,
  ReferenceFrequencyStart, ReferenceSteps,        \* spf
  FinalReferenceFrequency,                        \* spf
  ReferenceFrequencyStepToMatch,                  \* spf
  RtoMatch, ModToMatch,          \* loop variables
  printed,                       \* what the script prints at the end
  examined                       \* history: the (reference, R, MOD) the fractional search computed an error for

limits    == <<MinimumInt, MaximumInt, MaximumPFDFrequency>>
matching  == <<MatchingR, MatchingInt, MatchingMod, MatchingFrac>>
divider   == <<MatchingDivider, MatchingDivider_PowerOf2>>
sweep     == <<ReferenceFrequencyStart, ReferenceSteps, ReferenceFrequencyStepToMatch,
               ReferenceFrequencyToMatch>>
vars == <<variant, pc, args, ReferenceFrequency, DesiredFrequency, limits,
          NegativeFrequencyError, MatchAttempted, IntegerMode, FrequencyError,
          matching, divider, FractionalMode, sweep, FinalReferenceFrequency,
          RtoMatch, ModToMatch, printed, examined>>

----------------------------------------------------------------------------
(* Limits, in units of 2500 Hz *)

MaximumR == 4                          \* 1023 in the scripts
MaximumMod == 5                        \* 4095 in the scripts
MinimumInt_IntegerMode == 16
MaximumInt_IntegerMode == 65535
MinimumInt_FractionalMode == 19
MaximumInt_FractionalMode == 4091
MaximumPFDFrequency_IntegerMode == 42000      \* 105000000 Hz
MaximumPFDFrequency_FractionalMode == 20000   \* 50000000 Hz
MaximumPFDFrequency_spf == 18000              \* 45000000 Hz
MinimumPFDFrequency == 50                     \* 125000 Hz
MinimumRFFrequency_pf == 9390                 \* 23475000 Hz
MinimumRFFrequency_spf == 939                 \* 2347500 Hz
MaximumRFFrequency == 2400000                 \* 6000000000 Hz
MinimumReferenceFrequency == 4000             \* 10000000 Hz
MaximumReferenceFrequency == 80000            \* 200000000 Hz

----------------------------------------------------------------------------
(* Exact rationals standing for the scripts' floats *)

Rat(n, d) == [n |-> n, d |-> d]

Abs(x) == IF x < 0 THEN -x ELSE x

\* a < b for rationals >= 0, by whole parts first (no large products)
RatLess(a, b) ==
  LET fa == a.n \div a.d
      fb == b.n \div b.d
  IN  fa < fb \/ (fa = fb /\ (a.n % a.d) * b.d < (b.n % b.d) * a.d)

\* n/d >= k and n/d <= k for n >= 0, d > 0 and an integer k
QuotGE(n, d, k) == n \div d >= k
QuotLE(n, d, k) == n \div d < k \/ (n \div d = k /\ n % d = 0)

RatSub(a, b) == Rat(a.n * b.d - b.n * a.d, a.d * b.d)
RatMulInt(a, k) == Rat(a.n * k, a.d)
RatDiv(a, b) == Rat(a.n * b.d, a.d * b.n)

----------------------------------------------------------------------------
(* The computations of the two searches (the same in both scripts) *)

\* mutant of Doublings: doubling while DesiredFrequency <= MaximumRFFrequency / 2
RECURSIVE DoublingsInclusive(_)
DoublingsInclusive(f) ==
  IF f <= MaximumRFFrequency \div 2 THEN 1 + DoublingsInclusive(2 * f) ELSE 0

\* while DesiredFrequency < MaximumRFFrequency / 2: PowerOf2 += 1; DesiredFrequency *= 2
RECURSIVE Doublings(_)
Doublings(f) ==
  IF f < MaximumRFFrequency \div 2 THEN 1 + Doublings(2 * f) ELSE 0

RECURSIVE Pow2(_)
Pow2(k) == IF k = 0 THEN 1 ELSE 2 * Pow2(k - 1)

\* RtoMatch > 0 and ref / R >= MinimumPFDFrequency and ref / R <= MaximumPFDFrequency
PFDInRange(ref, r, maxpfd) ==
  r > 0 /\ QuotGE(ref, r, MinimumPFDFrequency) /\ QuotLE(ref, r, maxpfd)

\* IntTemp = DesiredFrequency / (ref / R)
IntTempOf(vco, ref, r) == Rat(vco * r, ref)

\* IntTemp >= MinimumInt and IntTemp <= MaximumInt
IntInRange(x, lo, hi) == QuotGE(x.n, x.d, lo) /\ QuotLE(x.n, x.d, hi)

\* mutant of IsWhole: the operands of the remainder swapped
IsWholeSwapped(x) == x.d % x.n = 0

\* math.remainder(IntTemp, 1) == 0
IsWhole(x) == x.n % x.d = 0

\* math.floor(IntTemp), IntTemp >= 0
Floor(x) == x.n \div x.d

\* FrequencyRemainder = DesiredFrequency - IntTemp * (ref / R)
FrequencyRemainderOf(vco, ref, r, n) == RatSub(Rat(vco, 1), RatMulInt(Rat(ref, r), n))

\* ModFrequencyStep = ref / R / Mod
ModFrequencyStepOf(ref, r, m) == Rat(ref, r * m)

\* FracToMatch = FrequencyRemainder / ModFrequencyStep, rounded: fractional part
\* >= 0.5 -> math.ceil, else math.floor; then FracToMatch >= Mod -> Mod - 1
FracToMatchOf(rem, step, m) ==
  LET x == RatDiv(rem, step)
      whole == x.n \div x.d
      part == x.n % x.d
      rounded == IF 2 * part >= x.d THEN (IF part = 0 THEN whole ELSE whole + 1)
                 ELSE whole
  IN  IF rounded >= m THEN m - 1 ELSE rounded

\* FrequencyRemainder - ModFrequencyStep * FracToMatch (signed)
SignedErrorOf(rem, step, frac) == RatSub(rem, RatMulInt(step, frac))

\* One candidate of the fractional search, from the reference, VCO frequency, R and MOD
Candidate(ref, vco, r, m) ==
  LET n == Floor(IntTempOf(vco, ref, r))
      rem == FrequencyRemainderOf(vco, ref, r, n)
      step == ModFrequencyStepOf(ref, r, m)
      frac == FracToMatchOf(rem, step, m)
      e == SignedErrorOf(rem, step, frac)
  IN  [int |-> n, frac |-> frac, err |-> Rat(Abs(e.n), e.d), neg |-> e.n < 0]

----------------------------------------------------------------------------
(* MAX2870pf.py *)

\* --ref and --rf values tried (units of 2500 Hz): around and at the limits,
\* 13 MHz, 60 MHz, and targets 915 MHz, 3 GHz, 4 GHz, 4.0000025 GHz, 4.0035 GHz
pf_Refs == {3999, 4000, 5200, 24000, 80000, 80001}
pf_RFs == {9389, 9390, 366000, 1200000, 1600000, 1600001, 1601400, 2400000, 2400001}

pf_Init ==
  /\ variant = "pf"
  /\ pc = "check"
  /\ args \in [ref : pf_Refs, rf : pf_RFs, refstart : {0}, steps : {0}]
  /\ ReferenceFrequency = args.ref
  /\ DesiredFrequency = args.rf
  /\ FrequencyError = Rat(args.ref, 1)
  /\ MinimumInt = MinimumInt_IntegerMode
  /\ MaximumInt = MaximumInt_IntegerMode
  /\ MaximumPFDFrequency = MaximumPFDFrequency_IntegerMode
  /\ NegativeFrequencyError = FALSE
  /\ MatchAttempted = FALSE
  /\ IntegerMode = TRUE
  /\ MatchingR = 1 /\ MatchingInt = 1 /\ MatchingMod = 2 /\ MatchingFrac = 0
  /\ MatchingDivider = 1 /\ MatchingDivider_PowerOf2 = 0
  /\ FractionalMode = TRUE
  /\ ReferenceFrequencyToMatch = 0
  /\ ReferenceFrequencyStart = 0 /\ ReferenceSteps = 0
  /\ ReferenceFrequencyStepToMatch = 0
  /\ FinalReferenceFrequency = 0
  /\ RtoMatch = 0 /\ ModToMatch = 0
  /\ printed = << >>
  /\ examined = {}

pf_ReferenceInRange(ref) ==
  ref >= MinimumReferenceFrequency /\ ref <= MaximumReferenceFrequency

\* mutant of pf_RFInRange: the upper bound excluded
pf_RFInRangeExclusive(rf) ==
  rf >= MinimumRFFrequency_pf /\ rf < MaximumRFFrequency

pf_RFInRange(rf) ==
  rf >= MinimumRFFrequency_pf /\ rf <= MaximumRFFrequency

\* lines 45-50 and 136-139: the range checks, then the doubling loop
pf_Check ==
  /\ variant = "pf" /\ pc = "check"
  /\ IF pf_ReferenceInRange(ReferenceFrequency)
     THEN IF pf_RFInRange(DesiredFrequency)
          THEN /\ MatchingDivider_PowerOf2' = MatchingDivider_PowerOf2 + Doublings(DesiredFrequency)
               /\ DesiredFrequency' = DesiredFrequency * Pow2(Doublings(DesiredFrequency))
               /\ MatchingDivider' = Pow2(MatchingDivider_PowerOf2')
               /\ RtoMatch' = 1      \* RtoMatch = 0 does nothing in the loop
               /\ pc' = "int"
               /\ printed' = printed
          ELSE /\ printed' = Append(printed, "RF frequency is out of range")
               /\ pc' = "done"
               /\ UNCHANGED <<divider, DesiredFrequency, RtoMatch>>
     ELSE /\ printed' = Append(printed, "Reference frequency is out of range")
          /\ pc' = "done"
          /\ UNCHANGED <<divider, DesiredFrequency, RtoMatch>>
  /\ UNCHANGED <<variant, args, ReferenceFrequency, limits, NegativeFrequencyError,
                 MatchAttempted, IntegerMode, FrequencyError, matching, FractionalMode,
                 sweep, FinalReferenceFrequency, ModToMatch, examined>>

\* lines 53-68: one iteration of the integer mode loop; leaving the loop with
\* FractionalMode still True leads to line 71
pf_IntegerStep ==
  /\ variant = "pf" /\ pc = "int"
  /\ LET IntTemp == IntTempOf(DesiredFrequency, ReferenceFrequency, RtoMatch)
         inPFD == PFDInRange(ReferenceFrequency, RtoMatch, MaximumPFDFrequency)
         inInt == inPFD /\ IntInRange(IntTemp, MinimumInt, MaximumInt)
         exact == inInt /\ IsWhole(IntTemp)
         continues == inInt /\ ~exact /\ RtoMatch < MaximumR
     IN  /\ MatchAttempted' = (MatchAttempted \/ inInt)
         /\ FractionalMode' = (FractionalMode /\ ~exact)
         /\ MatchingR' = IF exact THEN RtoMatch ELSE MatchingR
         /\ MatchingInt' = IF exact THEN Floor(IntTemp) ELSE MatchingInt
         /\ RtoMatch' = IF continues THEN RtoMatch + 1 ELSE RtoMatch
         /\ pc' = IF continues THEN "int" ELSE IF exact THEN "report" ELSE "fracinit"
  /\ UNCHANGED <<variant, args, ReferenceFrequency, DesiredFrequency, limits,
                 NegativeFrequencyError, IntegerMode, FrequencyError, MatchingMod,
                 MatchingFrac, divider, sweep, FinalReferenceFrequency, ModToMatch,
                 printed, examined>>

\* lines 71-75: the change of limits for fractional mode
pf_EnterFractional ==
  /\ variant = "pf" /\ pc = "fracinit"
  /\ MinimumInt' = MinimumInt_FractionalMode
  /\ MaximumInt' = MaximumInt_FractionalMode
  /\ MaximumPFDFrequency' = MaximumPFDFrequency_FractionalMode
  /\ RtoMatch' = 1
  /\ pc' = "fracR"
  /\ UNCHANGED <<variant, args, ReferenceFrequency, DesiredFrequency,
                 NegativeFrequencyError, MatchAttempted, IntegerMode, FrequencyError,
                 matching, divider, FractionalMode, sweep, FinalReferenceFrequency,
                 ModToMatch, printed, examined>>

\* lines 76-82 and 110-115: the head of one iteration of the fractional R loop
pf_FractionalR ==
  /\ variant = "pf" /\ pc = "fracR"
  /\ LET IntTemp == Floor(IntTempOf(DesiredFrequency, ReferenceFrequency, RtoMatch))
         inPFD == PFDInRange(ReferenceFrequency, RtoMatch, MaximumPFDFrequency)
         inInt == inPFD /\ IntTemp >= MinimumInt /\ IntTemp <= MaximumInt
         break == ~inPFD \/ (~inInt /\ IntTemp > MaximumInt)
     IN  /\ MatchAttempted' = (MatchAttempted \/ inInt)
         /\ ModToMatch' = IF inInt THEN 2 ELSE ModToMatch   \* Mod 0 and 1 do nothing
         /\ RtoMatch' = IF ~inInt /\ ~break /\ RtoMatch < MaximumR
                        THEN RtoMatch + 1 ELSE RtoMatch
         /\ pc' = IF inInt THEN "fracMod"
                  ELSE IF ~break /\ RtoMatch < MaximumR THEN "fracR" ELSE "report"
  /\ UNCHANGED <<variant, args, ReferenceFrequency, DesiredFrequency, limits,
                 NegativeFrequencyError, IntegerMode, FrequencyError, matching, divider,
                 FractionalMode, sweep, FinalReferenceFrequency, printed, examined>>

\* line 100: if FrequencyError < OldFrequencyError
pf_Better(new, old) == RatLess(new, old)

\* lines 83-109: one iteration of the Mod loop, and what follows its last one
pf_FractionalMod ==
  /\ variant = "pf" /\ pc = "fracMod"
  /\ LET OldFrequencyError == FrequencyError
         c == Candidate(ReferenceFrequency, DesiredFrequency, RtoMatch, ModToMatch)
         better == pf_Better(c.err, OldFrequencyError)
         exact == c.err.n = 0
     IN  /\ FrequencyError' = c.err
         /\ NegativeFrequencyError' = c.neg
         /\ MatchingR' = IF better THEN RtoMatch ELSE MatchingR
         /\ MatchingInt' = IF better THEN c.int ELSE MatchingInt
         /\ MatchingMod' = IF better THEN ModToMatch ELSE MatchingMod
         /\ MatchingFrac' = IF better THEN c.frac ELSE MatchingFrac
         /\ examined' = examined \cup {<<ReferenceFrequency, RtoMatch, ModToMatch>>}
         /\ IF exact THEN
              /\ pc' = "report"
              /\ UNCHANGED <<RtoMatch, ModToMatch>>
            ELSE IF ModToMatch < MaximumMod THEN
              /\ ModToMatch' = ModToMatch + 1
              /\ pc' = "fracMod"
              /\ RtoMatch' = RtoMatch
            ELSE IF RtoMatch < MaximumR THEN
              /\ RtoMatch' = RtoMatch + 1
              /\ pc' = "fracR"
              /\ ModToMatch' = ModToMatch
            ELSE
              /\ pc' = "report"
              /\ UNCHANGED <<RtoMatch, ModToMatch>>
  /\ UNCHANGED <<variant, args, ReferenceFrequency, DesiredFrequency, limits,
                 MatchAttempted, IntegerMode, divider, FractionalMode, sweep,
                 FinalReferenceFrequency, printed>>

\* lines 117-135: the report
pf_Report ==
  /\ variant = "pf" /\ pc = "report"
  /\ IF MatchAttempted
     THEN /\ DesiredFrequency' = DesiredFrequency \div MatchingDivider
          /\ IF FractionalMode
             THEN /\ printed' = Append(printed, "Fractional mode")
                  /\ FrequencyError' =
                       Rat(IF NegativeFrequencyError THEN -FrequencyError.n ELSE FrequencyError.n,
                           FrequencyError.d * MatchingDivider)
             ELSE /\ printed' = Append(printed, "Integer mode - exact frequency")
                  /\ FrequencyError' = FrequencyError
     ELSE /\ printed' = Append(printed, "Integer result within datasheet limits is not possible")
          /\ UNCHANGED <<DesiredFrequency, FrequencyError>>
  /\ pc' = "done"
  /\ UNCHANGED <<variant, args, ReferenceFrequency, limits, NegativeFrequencyError,
                 MatchAttempted, IntegerMode, matching, divider, FractionalMode, sweep,
                 FinalReferenceFrequency, RtoMatch, ModToMatch, examined>>

pf_Next ==
  \/ pf_Check
  \/ pf_IntegerStep
  \/ pf_EnterFractional
  \/ pf_FractionalR
  \/ pf_FractionalMod
  \/ pf_Report

----------------------------------------------------------------------------
(* MAX2870spf.py *)

SmallSteps == 2            \* --steps runs over 0 .. SmallSteps, and LargeSteps
LargeSteps == 76001        \* a step count above the reference span

\* --rf and --refstart values tried (units of 2500 Hz)
spf_RFs == {938, 939, 366000, 1200000, 1600000, 1601400, 2400000, 2400001}
spf_Starts == {3990, 3999, 4000, 5200, 79998, 79999, 80000, 80005}

\* LargeSteps sweeps the whole reference span from 10 MHz; it is run for the
\* targets whose sweep ends at its first reference
spf_LargeStepRFs == {938, 366000, 1200000, 1600000, 1601400, 2400000, 2400001}

spf_Init ==
  /\ variant = "spf"
  /\ pc = "clamp"
  /\ args \in {a \in [ref : {0}, rf : spf_RFs, refstart : spf_Starts,
                      steps : (0 .. SmallSteps) \cup {LargeSteps}] :
                 a.steps = LargeSteps => a.rf \in spf_LargeStepRFs}
  /\ ReferenceFrequency = 0
  /\ DesiredFrequency = args.rf
  /\ ReferenceFrequencyStart = args.refstart
  /\ ReferenceSteps = args.steps
  /\ FinalReferenceFrequency = 0
  /\ FrequencyError = Rat(MaximumReferenceFrequency, 1)
  /\ MinimumInt = MinimumInt_IntegerMode
  /\ MaximumInt = MaximumInt_IntegerMode
  /\ MaximumPFDFrequency = MaximumPFDFrequency_spf
  /\ NegativeFrequencyError = FALSE
  /\ MatchAttempted = FALSE
  /\ IntegerMode = TRUE
  /\ MatchingR = 1 /\ MatchingInt = 1 /\ MatchingMod = 2 /\ MatchingFrac = 0
  /\ MatchingDivider = 1 /\ MatchingDivider_PowerOf2 = 0
  /\ FractionalMode = TRUE
  /\ ReferenceFrequencyToMatch = 0
  /\ ReferenceFrequencyStepToMatch = 0
  /\ RtoMatch = 0 /\ ModToMatch = 0
  /\ printed = << >>
  /\ examined = {}

\* mutant of spf_Clamped: the start moved to REF_max, not to REF_max - steps
spf_ClampedToMaximum(start, steps) ==
  LET steps1 == IF steps > MaximumReferenceFrequency - MinimumReferenceFrequency
                THEN MaximumReferenceFrequency - MinimumReferenceFrequency ELSE steps
      start1 == IF start + steps1 > MaximumReferenceFrequency
                THEN MaximumReferenceFrequency ELSE start
      start2 == IF start1 < MinimumReferenceFrequency
                THEN MinimumReferenceFrequency ELSE start1
  IN  [start |-> start2, steps |-> steps1]

\* lines 48-56: the three clamping steps
spf_Clamped(start, steps) ==
  LET steps1 == IF steps > MaximumReferenceFrequency - MinimumReferenceFrequency
                THEN MaximumReferenceFrequency - MinimumReferenceFrequency ELSE steps
      start1 == IF start + steps1 > MaximumReferenceFrequency
                THEN MaximumReferenceFrequency - steps1 ELSE start
      start2 == IF start1 < MinimumReferenceFrequency
                THEN MinimumReferenceFrequency ELSE start1
  IN  [start |-> start2, steps |-> steps1]

spf_Clamp ==
  /\ variant = "spf" /\ pc = "clamp"
  /\ ReferenceFrequencyStart' = spf_Clamped(ReferenceFrequencyStart, ReferenceSteps).start
  /\ ReferenceSteps' = spf_Clamped(ReferenceFrequencyStart, ReferenceSteps).steps
  /\ ReferenceFrequencyStepToMatch' = 0
  /\ pc' = IF ReferenceSteps' + 1 > 0 THEN "step" ELSE "report"
  /\ UNCHANGED <<variant, args, ReferenceFrequency, DesiredFrequency, limits,
                 NegativeFrequencyError, MatchAttempted, IntegerMode, FrequencyError,
                 matching, divider, FractionalMode, ReferenceFrequencyToMatch,
                 FinalReferenceFrequency, RtoMatch, ModToMatch, printed, examined>>

spf_RFInRange(rf) ==
  rf >= MinimumRFFrequency_spf /\ rf <= MaximumRFFrequency

\* lines 58-74: the head of one sweep iteration
spf_StepBegin ==
  /\ variant = "spf" /\ pc = "step"
  /\ ReferenceFrequencyToMatch' = ReferenceFrequencyStart + ReferenceFrequencyStepToMatch
  /\ FractionalMode' = TRUE
  /\ IF spf_RFInRange(DesiredFrequency)
     THEN /\ MatchingDivider_PowerOf2' = MatchingDivider_PowerOf2 + Doublings(DesiredFrequency)
          /\ DesiredFrequency' = DesiredFrequency * Pow2(Doublings(DesiredFrequency))
          /\ MatchingDivider' = Pow2(MatchingDivider_PowerOf2')
          /\ MaximumPFDFrequency' = IF IntegerMode THEN MaximumPFDFrequency_IntegerMode
                                    ELSE MaximumPFDFrequency
          /\ RtoMatch' = 1
          /\ pc' = IF IntegerMode THEN "int" ELSE "fracinit"
          /\ printed' = printed
     ELSE /\ printed' = Append(printed, "RF frequency is out of range")
          /\ pc' = "report"
          /\ UNCHANGED <<divider, DesiredFrequency, MaximumPFDFrequency, RtoMatch>>
  /\ UNCHANGED <<variant, args, ReferenceFrequency, MinimumInt, MaximumInt,
                 NegativeFrequencyError, MatchAttempted, IntegerMode, FrequencyError,
                 matching, ReferenceFrequencyStart, ReferenceSteps,
                 ReferenceFrequencyStepToMatch, FinalReferenceFrequency, ModToMatch,
                 examined>>

\* lines 75-92: one iteration of the integer mode loop
spf_IntegerStep ==
  /\ variant = "spf" /\ pc = "int"
  /\ LET IntTemp == IntTempOf(DesiredFrequency, ReferenceFrequencyToMatch, RtoMatch)
         inPFD == PFDInRange(ReferenceFrequencyToMatch, RtoMatch, MaximumPFDFrequency)
         inInt == inPFD /\ IntInRange(IntTemp, MinimumInt, MaximumInt)
         exact == inInt /\ IsWhole(IntTemp)
         break == exact \/ (inPFD /\ ~inInt)
         continues == ~break /\ RtoMatch < MaximumR
     IN  /\ MatchAttempted' = (MatchAttempted \/ inInt)
         /\ FractionalMode' = (FractionalMode /\ ~exact)
         /\ FinalReferenceFrequency' = IF exact THEN ReferenceFrequencyToMatch
                                       ELSE FinalReferenceFrequency
         /\ MatchingR' = IF exact THEN RtoMatch ELSE MatchingR
         /\ MatchingInt' = IF exact THEN Floor(IntTemp) ELSE MatchingInt
         /\ MatchingMod' = IF exact THEN 2 ELSE MatchingMod
         /\ MatchingFrac' = IF exact THEN 0 ELSE MatchingFrac
         /\ RtoMatch' = IF continues THEN RtoMatch + 1 ELSE RtoMatch
         /\ pc' = IF continues THEN "int" ELSE IF exact THEN "report" ELSE "fracinit"
  /\ UNCHANGED <<variant, args, ReferenceFrequency, DesiredFrequency, limits,
                 NegativeFrequencyError, IntegerMode, FrequencyError, divider, sweep,
                 ModToMatch, printed, examined>>

\* mutant of spf_EnterFractional: IntegerMode is not cleared
spf_EnterFractionalNoLatch ==
  /\ variant = "spf" /\ pc = "fracinit"
  /\ MinimumInt' = MinimumInt_FractionalMode
  /\ MaximumInt' = MaximumInt_FractionalMode
  /\ MaximumPFDFrequency' = MaximumPFDFrequency_FractionalMode
  /\ RtoMatch' = 1
  /\ pc' = "fracR"
  /\ UNCHANGED <<variant, args, ReferenceFrequency, DesiredFrequency,
                 NegativeFrequencyError, MatchAttempted, IntegerMode, FrequencyError,
                 matching, divider, FractionalMode, sweep, FinalReferenceFrequency,
                 ModToMatch, printed, examined>>

\* lines 95-100: the integer mode latch and the change of limits
spf_EnterFractional ==
  /\ variant = "spf" /\ pc = "fracinit"
  /\ IntegerMode' = FALSE
  /\ MinimumInt' = MinimumInt_FractionalMode
  /\ MaximumInt' = MaximumInt_FractionalMode
  /\ MaximumPFDFrequency' = MaximumPFDFrequency_FractionalMode
  /\ RtoMatch' = 1
  /\ pc' = "fracR"
  /\ UNCHANGED <<variant, args, ReferenceFrequency, DesiredFrequency,
                 NegativeFrequencyError, MatchAttempted, FrequencyError, matching,
                 divider, FractionalMode, sweep, FinalReferenceFrequency, ModToMatch,
                 printed, examined>>

\* lines 135-136 and the for statement of line 58: after the searches of one
\* reference, the sweep stops on an exact result or goes to the next reference
spf_AfterReference(err) ==
  IF err.n = 0 \/ ReferenceFrequencyStepToMatch >= ReferenceSteps
  THEN /\ pc' = "report"
       /\ ReferenceFrequencyStepToMatch' = ReferenceFrequencyStepToMatch
  ELSE /\ pc' = "step"
       /\ ReferenceFrequencyStepToMatch' = ReferenceFrequencyStepToMatch + 1

\* lines 101-107: the head of one iteration of the fractional R loop
spf_FractionalR ==
  /\ variant = "spf" /\ pc = "fracR"
  /\ LET IntTemp == Floor(IntTempOf(DesiredFrequency, ReferenceFrequencyToMatch, RtoMatch))
         inPFD == PFDInRange(ReferenceFrequencyToMatch, RtoMatch, MaximumPFDFrequency)
         inInt == inPFD /\ IntTemp >= MinimumInt /\ IntTemp <= MaximumInt
     IN  /\ MatchAttempted' = (MatchAttempted \/ inInt)
         /\ ModToMatch' = IF inInt THEN 2 ELSE ModToMatch
         /\ RtoMatch' = IF ~inInt /\ RtoMatch < MaximumR THEN RtoMatch + 1 ELSE RtoMatch
         /\ IF inInt THEN
              pc' = "fracMod" /\ UNCHANGED ReferenceFrequencyStepToMatch
            ELSE IF RtoMatch < MaximumR THEN
              pc' = "fracR" /\ UNCHANGED ReferenceFrequencyStepToMatch
            ELSE spf_AfterReference(FrequencyError)
  /\ UNCHANGED <<variant, args, ReferenceFrequency, DesiredFrequency, limits,
                 NegativeFrequencyError, IntegerMode, FrequencyError, matching, divider,
                 FractionalMode, ReferenceFrequencyStart, ReferenceSteps,
                 ReferenceFrequencyToMatch, FinalReferenceFrequency, printed, examined>>

\* mutant of spf_Better: <= in place of <
spf_BetterOrEqual(new, best) == ~RatLess(best, new)

\* line 124: if NewFrequencyError < FrequencyError
spf_Better(new, best) == RatLess(new, best)

\* lines 108-134: one iteration of the Mod loop, and what follows its last one
spf_FractionalMod ==
  /\ variant = "spf" /\ pc = "fracMod"
  /\ LET c == Candidate(ReferenceFrequencyToMatch, DesiredFrequency, RtoMatch, ModToMatch)
         better == spf_Better(c.err, FrequencyError)
     IN  /\ NegativeFrequencyError' = c.neg
         /\ FrequencyError' = IF better THEN c.err ELSE FrequencyError
         /\ FinalReferenceFrequency' = IF better THEN ReferenceFrequencyToMatch
                                       ELSE FinalReferenceFrequency
         /\ MatchingR' = IF better THEN RtoMatch ELSE MatchingR
         /\ MatchingInt' = IF better THEN c.int ELSE MatchingInt
         /\ MatchingMod' = IF better THEN ModToMatch ELSE MatchingMod
         /\ MatchingFrac' = IF better THEN c.frac ELSE MatchingFrac
         /\ examined' = examined \cup {<<ReferenceFrequencyToMatch, RtoMatch, ModToMatch>>}
         /\ IF FrequencyError'.n # 0 /\ ModToMatch < MaximumMod THEN
              /\ ModToMatch' = ModToMatch + 1
              /\ pc' = "fracMod"
              /\ UNCHANGED <<RtoMatch, ReferenceFrequencyStepToMatch>>
            ELSE IF FrequencyError'.n # 0 /\ RtoMatch < MaximumR THEN
              /\ RtoMatch' = RtoMatch + 1
              /\ pc' = "fracR"
              /\ UNCHANGED <<ModToMatch, ReferenceFrequencyStepToMatch>>
            ELSE
              /\ spf_AfterReference(FrequencyError')
              /\ UNCHANGED <<RtoMatch, ModToMatch>>
  /\ UNCHANGED <<variant, args, ReferenceFrequency, DesiredFrequency, limits,
                 MatchAttempted, IntegerMode, divider, FractionalMode,
                 ReferenceFrequencyStart, ReferenceSteps, ReferenceFrequencyToMatch,
                 printed>>

\* lines 138-157: the report
spf_Report ==
  /\ variant = "spf" /\ pc = "report"
  /\ IF MatchAttempted
     THEN /\ DesiredFrequency' = DesiredFrequency \div MatchingDivider
          /\ IF FractionalMode
             THEN /\ printed' = Append(printed, "Fractional mode")
                  /\ FrequencyError' =
                       IF NegativeFrequencyError
                       THEN Rat(-FrequencyError.n, FrequencyError.d * MatchingDivider)
                       ELSE FrequencyError
             ELSE /\ printed' = Append(printed, "Integer mode - exact frequency")
                  /\ FrequencyError' = FrequencyError
     ELSE /\ printed' = Append(printed, "R and/or Int values within datasheet limits are not possible")
          /\ UNCHANGED <<DesiredFrequency, FrequencyError>>
  /\ pc' = "done"
  /\ UNCHANGED <<variant, args, ReferenceFrequency, limits, NegativeFrequencyError,
                 MatchAttempted, IntegerMode, matching, divider, FractionalMode, sweep,
                 FinalReferenceFrequency, RtoMatch, ModToMatch, examined>>

spf_Next ==
  \/ spf_Clamp
  \/ spf_StepBegin
  \/ spf_IntegerStep
  \/ spf_EnterFractional
  \/ spf_FractionalR
  \/ spf_FractionalMod
  \/ spf_Report

----------------------------------------------------------------------------
Init == pf_Init \/ spf_Init
Next == pf_Next \/ spf_Next
Spec == Init /\ [][Next]_vars

----------------------------------------------------------------------------
(* Definitions used to state the properties *)

Searching == pc \in {"int", "fracinit", "fracR", "fracMod"}
Done == pc = "done"
LastPrinted == IF printed = << >> THEN "" ELSE printed[Len(printed)]

\* the VCO frequency: the report divides DesiredFrequency back to the RF frequency
Vco == IF Done /\ MatchAttempted THEN DesiredFrequency * MatchingDivider ELSE DesiredFrequency

\* the reference the reported registers belong to
ReferenceUsed == IF variant = "pf" THEN ReferenceFrequency ELSE FinalReferenceFrequency

\* a = b for rationals >= 0
RatEq(a, b) ==
  /\ a.n \div a.d = b.n \div b.d
  /\ (a.n % a.d) * b.d = (b.n % b.d) * a.d

RECURSIVE GCD(_, _)
GCD(a, b) == IF b = 0 THEN a ELSE GCD(b, a % b)
Reduced(x) == LET g == GCD(Abs(x.n), x.d) IN Rat(x.n \div g, x.d \div g)

\* vco - (ref / R) * (Int + Frac / Mod), signed
ResidualOf(ref, vco, r, n, m, f) == Rat(vco * r * m - ref * (n * m + f), r * m)
ReportedResidual ==
  ResidualOf(ReferenceUsed, Vco, MatchingR, MatchingInt, MatchingMod, MatchingFrac)
AbsRat(x) == Rat(Abs(x.n), x.d)

ErrorOf(e) == Candidate(e[1], Vco, e[2], e[3]).err

\* the R that integer mode may use for a reference: PFD within [125 kHz, 105 MHz]
\* and N = vco * R / ref a whole number within [16, 65535]
IntegerSolutions(ref, vco) ==
  {r \in 1 .. MaximumR :
     /\ ref >= MinimumPFDFrequency * r
     /\ ref <= MaximumPFDFrequency_IntegerMode * r
     /\ (vco * r) % ref = 0
     /\ (vco * r) \div ref >= MinimumInt_IntegerMode
     /\ (vco * r) \div ref <= MaximumInt_IntegerMode}

\* the R that fractional mode may use: PFD within [125 kHz, 50 MHz] and
\* floor(vco * R / ref) within [19, 4091]
FractionalRs(ref, vco) ==
  {r \in 1 .. MaximumR :
     /\ ref >= MinimumPFDFrequency * r
     /\ ref <= MaximumPFDFrequency_FractionalMode * r
     /\ (vco * r) \div ref >= MinimumInt_FractionalMode
     /\ (vco * r) \div ref <= MaximumInt_FractionalMode}

Minimum(S) == CHOOSE x \in S : \A y \in S : x <= y

----------------------------------------------------------------------------
(* Properties *)

\* C1 (MAX2870pf): when integer mode finds no exact match and Fractional mode is
\* reported, no (R, MOD) pair the fractional search examined has a strictly
\* smaller absolute error than the reported candidate (R, Int, Mod, Frac).
C1_ReportedCandidateIsMinimal ==
  (variant = "pf" /\ Done /\ LastPrinted = "Fractional mode") =>
    \A e \in examined : ~RatLess(ErrorOf(e), AbsRat(ReportedResidual))

\* C2 (MAX2870pf): whenever some R has reference/R within [125 kHz, 105 MHz] and
\* N = vco*R/reference a whole number within [16, 65535], Integer mode is reported
\* with the smallest such R, reference/R*N = vco, Mod = 2 and Frac = 0 (an R whose
\* PFD frequency is out of range is skipped, not the end of the search); integer
\* mode fails only when no such R exists.
C2_IntegerModeFindsSmallestR ==
  (variant = "pf" /\ Done /\ pf_ReferenceInRange(args.ref) /\ pf_RFInRange(args.rf)) =>
    LET sols == IntegerSolutions(ReferenceFrequency, Vco)
    IN  IF sols # {}
        THEN /\ LastPrinted = "Integer mode - exact frequency"
             /\ MatchingR = Minimum(sols)
             /\ MatchingInt * ReferenceFrequency = Vco * MatchingR
             /\ MatchingMod = 2 /\ MatchingFrac = 0
        ELSE LastPrinted # "Integer mode - exact frequency"

\* C4 (MAX2870pf): Fractional mode is reported only if the fractional search found
\* an R with reference/R within [125 kHz, 50 MHz] and floor(vco*R/reference) within
\* [19, 4091]; the reported Int is then within [19, 4091] and the reported R within
\* the fractional PFD limits.  Without such an R (and without an exact integer
\* match) the outcome is the "not possible" diagnostic.
C4_FractionalNeedsFeasibleR ==
  (variant = "pf" /\ Done /\ LastPrinted = "Fractional mode") =>
    /\ FractionalRs(ReferenceFrequency, Vco) # {}
    /\ MatchingInt >= MinimumInt_FractionalMode
    /\ MatchingInt <= MaximumInt_FractionalMode
    /\ ReferenceFrequency >= MinimumPFDFrequency * MatchingR
    /\ ReferenceFrequency <= MaximumPFDFrequency_FractionalMode * MatchingR

\* C5 (both scripts): whenever Fractional mode is reported, the printed frequency
\* error times MatchingDivider equals the signed residual
\* vco - (reference_used / R) * (Int + Frac / Mod) of the reported registers
\* (stated for the reports whose registers the fractional search has set).
C5_ReportedErrorBelongsToCandidate ==
  (Done /\ LastPrinted = "Fractional mode"
        /\ <<ReferenceUsed, MatchingR, MatchingMod>> \in examined) =>
    Reduced(FrequencyError) =
      Reduced(Rat(ReportedResidual.n, ReportedResidual.d * MatchingDivider))

\* C6 as stated (MAX2870pf): reference 10 MHz and target 915 MHz give Fractional
\* mode with a non-zero frequency error.
C6_ExampleIsFractional ==
  (variant = "pf" /\ Done /\ args.ref = 4000 /\ args.rf = 366000) =>
    LastPrinted = "Fractional mode" /\ FrequencyError.n # 0

\* C6 as amended (MAX2870pf): reference 10 MHz and target 915 MHz give Integer
\* mode: VCO 3.66 GHz with RF divider 4, R = 1, Int = 366, Mod = 2, Frac = 0.
C6_ExampleIsInteger ==
  (variant = "pf" /\ Done /\ args.ref = 4000 /\ args.rf = 366000) =>
    /\ printed = <<"Integer mode - exact frequency">>
    /\ MatchingR = 1 /\ MatchingInt = 366 /\ MatchingMod = 2 /\ MatchingFrac = 0
    /\ MatchingDivider = 4 /\ MatchingDivider_PowerOf2 = 2
    /\ DesiredFrequency = 366000

C6_Witness ==
  variant = "pf" /\ Done /\ args.ref = 4000 /\ args.rf = 366000 /\ MatchingInt = 366

\* C8 (MAX2870pf): the searches are entered exactly when 10 MHz <= reference <=
\* 200 MHz and RF_min <= target <= 6 GHz (the four bounds accepted); otherwise
\* no search runs, the result variables keep their values and only the
\* out-of-range diagnostic is printed, the reference being checked first.
C8_RangeValidation ==
  variant = "pf" =>
    LET refOK == args.ref >= 4000 /\ args.ref <= 80000
        rfOK == args.rf >= 9390 /\ args.rf <= 2400000
        untouched ==
          /\ MatchingR = 1 /\ MatchingInt = 1 /\ MatchingMod = 2 /\ MatchingFrac = 0
          /\ MatchingDivider = 1 /\ MatchingDivider_PowerOf2 = 0
          /\ FractionalMode /\ ~MatchAttempted /\ ~NegativeFrequencyError
          /\ FrequencyError = Rat(args.ref, 1) /\ DesiredFrequency = args.rf
          /\ MinimumInt = 16 /\ MaximumInt = 65535
          /\ examined = {}
    IN  /\ (Searching \/ pc = "report") => (refOK /\ rfOK)
        /\ (Done /\ refOK /\ rfOK) =>
             /\ Len(printed) = 1
             /\ printed[1] \in {"Fractional mode", "Integer mode - exact frequency",
                                "Integer result within datasheet limits is not possible"}
        /\ (Done /\ ~refOK) =>
             printed = <<"Reference frequency is out of range">> /\ untouched
        /\ (Done /\ refOK /\ ~rfOK) =>
             printed = <<"RF frequency is out of range">> /\ untouched

C8_Witness ==
  /\ variant = "pf" /\ Done
  /\ args.ref = MinimumReferenceFrequency /\ args.rf = MaximumRFFrequency
  /\ MatchAttempted

\* C3 as stated (both scripts): for every accepted target the doubling loop ends
\* with vco = RF * 2^k, MatchingDivider = 2^k, k >= 0 the smallest such exponent,
\* and RF_max/2 <= vco < RF_max.
C3_VcoBelowMaximum ==
  Searching =>
    /\ MatchingDivider_PowerOf2 >= 0
    /\ MatchingDivider = Pow2(MatchingDivider_PowerOf2)
    /\ DesiredFrequency = args.rf * MatchingDivider
    /\ MatchingDivider_PowerOf2 > 0 => DesiredFrequency < 2400000
    /\ 2 * DesiredFrequency >= 2400000
    /\ DesiredFrequency < 2400000

\* C3 as amended (both scripts): as stated, but RF_max/2 <= vco <= RF_max, and
\* vco = RF_max exactly when the target is RF_max.
C3_VcoWithinBand ==
  Searching =>
    /\ MatchingDivider_PowerOf2 >= 0
    /\ MatchingDivider = Pow2(MatchingDivider_PowerOf2)
    /\ DesiredFrequency = args.rf * MatchingDivider
    /\ MatchingDivider_PowerOf2 > 0 => DesiredFrequency < 2400000
    /\ 2 * DesiredFrequency >= 2400000
    /\ DesiredFrequency <= 2400000
    /\ (DesiredFrequency = 2400000) <=> (args.rf = 2400000)

C3_Witness ==
  Searching /\ args.rf = 939 /\ MatchingDivider = 2048 /\ DesiredFrequency = 1923072

\* C7 (MAX2870spf): after the clamping the step count is min(requested,
\* REF_max - REF_min), REF_min <= start and start + steps <= REF_max; the step
\* count is reduced only when it exceeds REF_max - REF_min, otherwise the start
\* is shifted down; every reference the sweep tries lies in [REF_min, REF_max].
C7_Clamping ==
  (variant = "spf" /\ pc # "clamp") =>
    /\ ReferenceSteps = IF args.steps > 80000 - 4000 THEN 80000 - 4000 ELSE args.steps
    /\ ReferenceFrequencyStart >= 4000
    /\ ReferenceFrequencyStart + ReferenceSteps <= 80000
    /\ (args.steps <= 80000 - 4000 /\ args.refstart + args.steps > 80000) =>
         ReferenceFrequencyStart = IF 80000 - args.steps < 4000 THEN 4000
                                   ELSE 80000 - args.steps
    /\ (args.refstart >= 4000 /\ args.refstart + ReferenceSteps <= 80000) =>
         ReferenceFrequencyStart = args.refstart
    /\ Searching =>
         /\ ReferenceFrequencyToMatch >= 4000 /\ ReferenceFrequencyToMatch <= 80000
         /\ ReferenceFrequencyToMatch =
              ReferenceFrequencyStart + ReferenceFrequencyStepToMatch
         /\ ReferenceFrequencyStepToMatch <= ReferenceSteps
    /\ \A e \in examined : e[1] >= 4000 /\ e[1] <= 80000

C7_Witness ==
  /\ variant = "spf" /\ Searching
  /\ args.steps = LargeSteps /\ args.refstart = 80005
  /\ ReferenceSteps = 76000 /\ ReferenceFrequencyToMatch = 4000

Earlier(a, b) ==
  \/ a[1] < b[1]
  \/ a[1] = b[1] /\ a[2] < b[2]
  \/ a[1] = b[1] /\ a[2] = b[2] /\ a[3] < b[3]

\* C10 (MAX2870spf): the best error is carried over all references of the sweep;
\* when the sweep ends without an integer match the reported (reference, R, Int,
\* Mod, Frac) is one examined candidate: the first, in ascending (reference, R,
\* MOD) order, whose absolute error is the minimum over all candidates examined
\* at all references tried.
C10_FirstMinimalCandidateOfSweep ==
  variant = "spf" =>
    /\ (Searching /\ examined # {}) =>
         \E b \in examined :
           /\ RatEq(ErrorOf(b), FrequencyError)
           /\ \A e \in examined : ~RatLess(ErrorOf(e), FrequencyError)
    /\ (Done /\ MatchAttempted /\ LastPrinted # "Integer mode - exact frequency") =>
         LET best == <<FinalReferenceFrequency, MatchingR, MatchingMod>>
         IN  /\ LastPrinted = "Fractional mode"
             /\ best \in examined
             /\ MatchingInt = Candidate(best[1], Vco, best[2], best[3]).int
             /\ MatchingFrac = Candidate(best[1], Vco, best[2], best[3]).frac
             /\ \A e \in examined :
                  /\ ~RatLess(ErrorOf(e), ErrorOf(best))
                  /\ RatEq(ErrorOf(e), ErrorOf(best)) => ~Earlier(e, best)

\* a sweep whose best candidate is from a later reference, with a still later
\* candidate of equal error
C10_Witness ==
  /\ variant = "spf" /\ Done /\ LastPrinted = "Fractional mode"
  /\ FinalReferenceFrequency > ReferenceFrequencyStart
  /\ \E e \in examined :
       /\ Earlier(<<FinalReferenceFrequency, MatchingR, MatchingMod>>, e)
       /\ RatEq(ErrorOf(e), ErrorOf(<<FinalReferenceFrequency, MatchingR, MatchingMod>>))

====
